---- MODULE Spec2Model ----
(***************************************************************************)
(* MindSphere: the screens of the mobile client as state machines.         *)
(*                                                                         *)
(* Every screen is a React component: its useState cells are the fields of *)
(* one record variable, an event handler is an action, and an async        *)
(* handler is cut at its awaits: the part up to the first await is the     *)
(* action of the UI event, and what is left is a record in `tasks` that a  *)
(* later action resumes with the outcome of the awaited call.  A handler   *)
(* reads the state cells of the render that created it, so a suspended     *)
(* handler carries the values it captured (its closure) with it.           *)
(***************************************************************************)
EXTENDS Integers, Sequences, FiniteSets, TLC

VARIABLES
    variant,    \* which of the near-duplicate implementations of the screen is mounted
    therapist,  \* AITherapist: messages, inputValue, isLoading, sessionId, isRecording, recording
    audio,      \* expo-av: recordings started so far, and the ones holding the microphone
    stamps,     \* AITherapist: the reading of Date.now(), and the ids of the messages
    login,      \* Login: username, password, isLoading; Index: isAuthenticated
    account,    \* CreateAccount: displayName, email, password, isLoading
    report,     \* SafeReport: selectedType, reportContent, location, isAnonymous, isLoading;
                \* posted: the form as it stands has been sent
    linking,    \* the URLs handed to Linking.openURL
    home,       \* HomeScreen: selectedMood, user, loading, greeting
    community,  \* CommunityScreen: communities, myCommunities, loading, refreshing
    device,     \* the hour of the device's clock, and AsyncStorage's userToken and userId
    issued,     \* the async handler calls made so far on the home and community screens
    tasks,      \* suspended async handlers
    alerts,     \* Alert.alert dialogs raised and not yet answered, oldest first
    route       \* router calls made so far, oldest first

vars ==
    <<variant, therapist, audio, stamps, login, account, report, linking, home, community,
      device, issued, tasks, alerts, route>>

----------------------------------------------------------------------------
(* Bounds of the exploration *)

\* the sends accepted plus the recordings started on the AI-therapist screen
MaxTurns == 3
MaxAlerts == 2
\* the mood buttons tapped on the home screen
MaxTaps == 2
\* the async handler calls made on the community screen
MaxCalls == 4

\* the milliseconds that pass while the chat is used
MaxTicks == 2

----------------------------------------------------------------------------
(* Text.  A string is a sequence of one-character strings. *)

WhiteSpace == {" "}

RECURSIVE TrimStart(_)
TrimStart(s) ==
    IF s # <<>> /\ Head(s) \in WhiteSpace THEN TrimStart(Tail(s)) ELSE s

RECURSIVE TrimEnd(_)
TrimEnd(s) ==
    IF s # <<>> /\ s[Len(s)] \in WhiteSpace
    THEN TrimEnd(SubSeq(s, 1, Len(s) - 1))
    ELSE s

\* String.prototype.trim
Trim(s) == TrimEnd(TrimStart(s))

\* JavaScript's a || b on strings: the empty string is falsy
OrElse(a, b) == IF a # <<>> THEN a ELSE b

Remove(seq, i) == SubSeq(seq, 1, i - 1) \o SubSeq(seq, i + 1, Len(seq))

\* Alert.alert(title, ...): a dialog with the default OK button
Notice(title) == [title |-> title]

\* an alert is answered with a button that has no handler: OK of a notice,
\* 'Edit' of the transcription alert, 'Cancel' of the call confirmation
DismissAlert(i) ==
    /\ alerts[i].title \notin {"Success", "Report Submitted"}
    /\ alerts' = Remove(alerts, i)
    /\ UNCHANGED <<variant, therapist, audio, login, account, report, linking,
                   home, community, device, issued, tasks, route>>

\* the outcomes of an awaited fetch: resolved with an OK status, resolved
\* with a non-OK status, or rejected
FetchOutcomes == {"ok", "notOk", "throw"}

----------------------------------------------------------------------------
(* AITherapist *)

NoSession == "null"
SessionToken == "session-1"

SeedVoice ==
    << [sender |-> "bot", text |-> <<"h", "e", "l", "l", "o">>],
       [sender |-> "bot", text |-> <<"h", "o", "w">>],
       [sender |-> "bot", text |-> <<"h", "e", "r", "e">>] >>

SeedText ==
    SeedVoice \o
    << [sender |-> "user", text |-> <<"h", "i", " ", "l", "u", "m", "a">>],
       [sender |-> "bot", text |-> <<"h", "e", "a", "v", "y">>] >>

Seed == IF variant = "voice" THEN SeedVoice ELSE SeedText

\* the ids of the seed messages: '1', '2', '3' and, without speech input, '4', '5'
SeedIds == [i \in 1..Len(Seed) |-> i]

\* a reading of Date.now(), later than the ids of the seed
FirstReading == 10

\* what the user can type, and what the speech-to-text service can recognise
ChatTexts == { <<>>, <<"h", "i">> }
Transcriptions == { <<>>, <<" ">>, <<"h", "i">> }

\* data.response of POST /chat/message
ServerReplies == { <<>>, <<"o", "k">> }
DefaultReply == <<"t", "e", "l", "l", " ", "m", "e">>
TroubleReply == <<"t", "r", "o", "u", "b", "l", "e">>

\* the AITherapist component as constructed
TherapistMounted ==
    /\ therapist = [ messages    |-> Seed,
                     inputValue  |-> <<>>,
                     isLoading   |-> FALSE,
                     sessionId   |-> NoSession,
                     isRecording |-> FALSE,
                     recording   |-> 0 ]
    /\ audio = [started |-> 0, live |-> {}]
    /\ stamps = [now |-> FirstReading, ids |-> SeedIds]

\* the state cells a handler created by the current render reads
Closure ==
    [ inputValue |-> therapist.inputValue,
      isLoading  |-> therapist.isLoading,
      sessionId  |-> therapist.sessionId ]

\* the state cells that the handlers reached from stopRecording read: the
\* transcription handed to handleSendMessage is never empty, so the captured
\* inputValue is not among them
StopClosure ==
    [ isLoading |-> therapist.isLoading,
      sessionId |-> therapist.sessionId ]

\* the sends accepted so far
UserTurns ==
    Cardinality({ i \in (Len(Seed) + 1)..Len(therapist.messages) :
                    therapist.messages[i].sender = "user" })

TurnsLeft == UserTurns + audio.started < MaxTurns

ChatRequests == { t \in tasks : t.op = "sendMessageToAPI" }

\* initializeSession, after the await of POST /chat/session/start
InitializeSessionDone(t, outcome) ==
    /\ t.op = "initializeSession"
    /\ therapist' = IF outcome = "ok"
                    THEN [therapist EXCEPT !.sessionId = SessionToken]
                    ELSE therapist
    /\ tasks' = tasks \ {t}
    /\ UNCHANGED <<variant, audio, alerts, route>>

\* onChangeText={setInputValue}
SetInputValue(text) ==
    /\ alerts = <<>>
    /\ ~therapist.isLoading
    /\ variant = "voice" => ~therapist.isRecording
    /\ text # therapist.inputValue
    /\ therapist' = [therapist EXCEPT !.inputValue = text]
    /\ UNCHANGED <<variant, audio, tasks, alerts, route>>

\* handleSendMessage up to its await, run with the state cells of closure c
HandleSendMessage(messageText, c) ==
    LET textToSend == OrElse(messageText, c.inputValue) IN
    IF Trim(textToSend) = <<>> \/ c.isLoading
    THEN UNCHANGED <<therapist, tasks>>
    ELSE /\ therapist' =
              [therapist EXCEPT
                 !.messages = Append(@, [sender |-> "user", text |-> textToSend]),
                 !.inputValue = <<>>,
                 !.isLoading = TRUE]
         /\ tasks' = tasks \cup { [ op        |-> "sendMessageToAPI",
                                      turn      |-> Len(therapist.messages) + 1,
                                      sessionId |-> c.sessionId,
                                      message   |-> textToSend ] }

\* the send button
SendButtonDisabled ==
    \/ Trim(therapist.inputValue) = <<>>
    \/ therapist.isLoading
    \/ variant = "voice" /\ therapist.isRecording

PressSend ==
    /\ alerts = <<>>
    /\ ~SendButtonDisabled
    /\ TurnsLeft
    /\ HandleSendMessage(<<>>, Closure)
    /\ UNCHANGED <<variant, audio, alerts, route>>

\* sendMessageToAPI without its fallback text for a failed request
BotResponseNoFallback(outcome, reply) == OrElse(reply, DefaultReply)

\* what sendMessageToAPI returns
BotResponse(outcome, reply) ==
    IF outcome = "ok" THEN OrElse(reply, DefaultReply) ELSE TroubleReply

\* handleSendMessage after its await, were the bot message appended to the
\* list of the render that started the send: setMessages([...messages, bot])
SendMessageDoneStale(t, outcome, reply) ==
    /\ t.op = "sendMessageToAPI"
    /\ therapist' =
         [therapist EXCEPT
            !.messages = Append(SubSeq(@, 1, t.turn - 1),
                                [sender |-> "bot",
                                 text |-> BotResponse(outcome, reply)]),
            !.isLoading = FALSE]
    /\ tasks' = tasks \ {t}
    /\ UNCHANGED <<variant, audio, alerts, route>>

\* handleSendMessage after its await, were the user's message taken back
\* when the request fails
SendMessageDoneRollback(t, outcome, reply) ==
    /\ t.op = "sendMessageToAPI"
    /\ therapist' =
         [therapist EXCEPT
            !.messages = IF outcome = "ok"
                         THEN Append(@, [sender |-> "bot",
                                         text |-> BotResponse(outcome, reply)])
                         ELSE Remove(@, t.turn),
            !.isLoading = FALSE]
    /\ tasks' = tasks \ {t}
    /\ UNCHANGED <<variant, audio, alerts, route>>

\* handleSendMessage after its await, were the list then reloaded as
\* fetchChatHistory sets it: setMessages(historyMessages), the turns the
\* server knows, without the seed transcript
SendMessageDoneReload(t, outcome, reply) ==
    /\ t.op = "sendMessageToAPI"
    /\ therapist' =
         [therapist EXCEPT
            !.messages = Append(SubSeq(@, Len(Seed) + 1, Len(@)),
                                [sender |-> "bot",
                                 text |-> BotResponse(outcome, reply)]),
            !.isLoading = FALSE]
    /\ tasks' = tasks \ {t}
    /\ UNCHANGED <<variant, audio, alerts, route>>

\* handleSendMessage after its await, were a thrown fetch not caught by
\* sendMessageToAPI: the rejection ends the handler before its last two updates
SendMessageDoneUncaught(t, outcome, reply) ==
    /\ t.op = "sendMessageToAPI"
    /\ therapist' =
         IF outcome = "throw"
         THEN therapist
         ELSE [therapist EXCEPT
                 !.messages = Append(@, [sender |-> "bot",
                                         text |-> BotResponse(outcome, reply)]),
                 !.isLoading = FALSE]
    /\ tasks' = tasks \ {t}
    /\ UNCHANGED <<variant, audio, alerts, route>>

\* handleSendMessage after its await of sendMessageToAPI
SendMessageDone(t, outcome, reply) ==
    /\ t.op = "sendMessageToAPI"
    /\ therapist' =
         [therapist EXCEPT
            !.messages = Append(@, [sender |-> "bot",
                                    text |-> BotResponse(outcome, reply)]),
            !.isLoading = FALSE]
    /\ tasks' = tasks \ {t}
    /\ UNCHANGED <<variant, audio, alerts, route>>

\* handleVoiceInput of the variant without speech input
VoicePlaceholder ==
    /\ variant = "text"
    /\ alerts = <<>>
    /\ alerts' = Append(alerts, Notice("Alert"))
    /\ UNCHANGED <<variant, therapist, audio, tasks, route>>

\* startRecording up to its first await
StartRecording ==
    /\ TurnsLeft
    /\ audio' = [audio EXCEPT !.started = @ + 1]
    /\ tasks' = tasks \cup { [ op     |-> "startRecording",
                                 handle |-> audio.started + 1 ] }
    /\ UNCHANGED <<therapist, alerts>>

\* stopRecording up to its first await, run with the recording of closure c
StopRecording(recording, c) ==
    IF recording = 0
    THEN UNCHANGED <<therapist, audio, stamps, tasks, alerts>>
    ELSE /\ therapist' = [therapist EXCEPT !.isRecording = FALSE]
         /\ tasks' = tasks \cup { [ op        |-> "stopRecording",
                                      pc        |-> "stopAndUnload",
                                      recording |-> recording,
                                      closure   |-> c ] }
         /\ UNCHANGED <<audio, alerts>>

\* handleVoiceInput; the button is disabled while isLoading
HandleVoiceInput ==
    /\ variant = "voice"
    /\ alerts = <<>>
    /\ ~therapist.isLoading
    /\ IF therapist.isRecording
       THEN StopRecording(therapist.recording, StopClosure)
       ELSE StartRecording
    /\ UNCHANGED <<variant, route>>

\* startRecording resumed after its awaits: Audio.requestPermissionsAsync,
\* Audio.setAudioModeAsync and Audio.Recording.createAsync.  No state cell is
\* read or written between the three, so they are one step: the recording is
\* created, the permission is denied, or one of the calls throws.
StartRecordingDone(t, outcome) ==
    /\ t.op = "startRecording"
    /\ \/ /\ outcome = "ok"
          /\ therapist' = [therapist EXCEPT !.recording = t.handle,
                                            !.isRecording = TRUE]
          /\ audio' = [audio EXCEPT !.live = @ \cup {t.handle}]
          /\ UNCHANGED alerts
       \/ /\ outcome = "denied"
          /\ Len(alerts) < MaxAlerts
          /\ alerts' = Append(alerts, Notice("Permission Required"))
          /\ UNCHANGED <<therapist, audio>>
       \/ /\ outcome = "throw"
          /\ Len(alerts) < MaxAlerts
          /\ alerts' = Append(alerts, Notice("Error"))
          /\ UNCHANGED <<therapist, audio>>
    /\ tasks' = tasks \ {t}
    /\ UNCHANGED <<variant, route>>

\* stopRecording resumed after recording.stopAndUnloadAsync();
\* hasUri: recording.getURI() is not null
StopAndUnloadDone(t, outcome, hasUri) ==
    /\ t.op = "stopRecording"
    /\ t.pc = "stopAndUnload"
    /\ \/ /\ outcome = "ok"
          /\ hasUri
          \* convertSpeechToText up to its first await
          /\ therapist' = [therapist EXCEPT !.isLoading = TRUE]
          /\ audio' = [audio EXCEPT !.live = @ \ {t.recording}]
          /\ tasks' = (tasks \ {t}) \cup {[t EXCEPT !.pc = "readFile"]}
          /\ UNCHANGED alerts
       \/ /\ outcome = "ok"
          /\ ~hasUri
          /\ Len(alerts) < MaxAlerts
          /\ audio' = [audio EXCEPT !.live = @ \ {t.recording}]
          /\ alerts' = Append(alerts, Notice("Error"))
          /\ tasks' = tasks \ {t}
          /\ UNCHANGED therapist
       \/ /\ outcome = "throw"
          /\ hasUri
          /\ Len(alerts) < MaxAlerts
          /\ alerts' = Append(alerts, Notice("Error"))
          /\ tasks' = tasks \ {t}
          /\ UNCHANGED <<therapist, audio>>
    /\ UNCHANGED <<variant, route>>

\* the end of convertSpeechToText (its finally) and then of stopRecording
ConvertFinished(t, alert) ==
    /\ Len(alerts) < MaxAlerts
    /\ alerts' = Append(alerts, alert)
    /\ tasks' = tasks \ {t}

\* convertSpeechToText resumed after FileSystem.readAsStringAsync:
\* POST /speech-to-text is issued with the captured sessionId
ReadFileDone(t, outcome) ==
    /\ t.op = "stopRecording"
    /\ t.pc = "readFile"
    /\ \/ /\ outcome = "ok"
          /\ tasks' = (tasks \ {t}) \cup {[t EXCEPT !.pc = "speechToText"]}
          /\ UNCHANGED <<therapist, alerts>>
       \/ /\ outcome = "throw"
          /\ ConvertFinished(t, Notice("Transcription Failed"))
          /\ therapist' = [therapist EXCEPT !.isLoading = FALSE,
                                            !.recording = 0]
    /\ UNCHANGED <<variant, audio, route>>

\* convertSpeechToText resumed after POST /speech-to-text;
\* text: data.text || data.transcription || ''
SpeechToTextDone(t, outcome, text) ==
    /\ t.op = "stopRecording"
    /\ t.pc = "speechToText"
    /\ \/ /\ outcome = "ok"
          /\ text # <<>>
          /\ ConvertFinished(t, [ title   |-> "Transcription Complete",
                                  text    |-> text,
                                  closure |-> t.closure ])
          /\ therapist' = [therapist EXCEPT !.inputValue = text,
                                            !.isLoading = FALSE,
                                            !.recording = 0]
       \/ /\ outcome = "ok"
          /\ text = <<>>
          /\ ConvertFinished(t, Notice("Error"))
          /\ therapist' = [therapist EXCEPT !.isLoading = FALSE,
                                            !.recording = 0]
       \/ /\ outcome \in {"notOk", "throw"}
          /\ text = <<>>
          /\ ConvertFinished(t, Notice("Transcription Failed"))
          /\ therapist' = [therapist EXCEPT !.isLoading = FALSE,
                                            !.recording = 0]
    /\ UNCHANGED <<variant, audio, route>>

\* 'Send' of the transcription alert: handleSendMessage(transcribedText) of
\* the render in which the recording was stopped
TranscriptionSend(i) ==
    /\ alerts[i].title = "Transcription Complete"
    /\ TurnsLeft
    /\ alerts' = Remove(alerts, i)
    /\ HandleSendMessage(alerts[i].text,
                         [ inputValue |-> <<>>,
                           isLoading  |-> alerts[i].closure.isLoading,
                           sessionId  |-> alerts[i].closure.sessionId ])
    /\ UNCHANGED <<variant, audio, route>>

\* the screen in front; the other screens stay as they were mounted
ScreensBehind ==
    /\ UNCHANGED <<login, account, report, linking, home, community, device, issued>>

\* the screen in front, its message ids left aside
TherapistInFront ==
    /\ ScreensBehind
    /\ UNCHANGED stamps

TherapistNext ==
    \/ \E t \in tasks, outcome \in FetchOutcomes :
          TherapistInFront /\ InitializeSessionDone(t, outcome)
    \/ \E text \in ChatTexts :
          TherapistInFront /\ SetInputValue(text)
    \/ TherapistInFront /\ PressSend
    \/ \E t \in tasks, outcome \in FetchOutcomes, reply \in ServerReplies :
          TherapistInFront /\ SendMessageDone(t, outcome, reply)
    \/ TherapistInFront /\ VoicePlaceholder
    \/ TherapistInFront /\ HandleVoiceInput
    \/ \E t \in tasks, outcome \in {"ok", "denied", "throw"} :
          TherapistInFront /\ StartRecordingDone(t, outcome)
    \/ \E t \in tasks, outcome \in {"ok", "throw"}, hasUri \in BOOLEAN :
          TherapistInFront /\ StopAndUnloadDone(t, outcome, hasUri)
    \/ \E t \in tasks, outcome \in {"ok", "throw"} :
          TherapistInFront /\ ReadFileDone(t, outcome)
    \/ \E t \in tasks, outcome \in FetchOutcomes, text \in Transcriptions :
          TherapistInFront /\ SpeechToTextDone(t, outcome, text)
    \/ \E i \in 1..Len(alerts) :
          TherapistInFront /\ TranscriptionSend(i)
    \/ \E i \in 1..Len(alerts) :
          TherapistInFront /\ DismissAlert(i)


\* the id given to a message appended by the step: Date.now().toString() for
\* the user's message, (Date.now() + 1).toString() for the bot's
Stamp ==
    LET last == therapist'.messages[Len(therapist'.messages)] IN
    stamps' =
       [stamps EXCEPT
          !.ids = IF Len(therapist'.messages) > Len(therapist.messages)
                  THEN Append(@, IF last.sender = "user"
                                 THEN stamps.now
                                 ELSE stamps.now + 1)
                  ELSE @]

\* a millisecond passes
Tick ==
    /\ stamps.now < FirstReading + MaxTicks
    /\ stamps' = [stamps EXCEPT !.now = @ + 1]
    /\ ScreensBehind
    /\ UNCHANGED <<variant, therapist, audio, tasks, alerts, route>>

\* the screen in front, with the ids of its messages
TherapistIdsNext ==
    \/ Tick
    \/ \E t \in tasks, outcome \in FetchOutcomes :
          ScreensBehind /\ InitializeSessionDone(t, outcome) /\ Stamp
    \/ \E text \in ChatTexts :
          ScreensBehind /\ SetInputValue(text) /\ Stamp
    \/ ScreensBehind /\ PressSend /\ Stamp
    \/ \E t \in tasks, outcome \in FetchOutcomes, reply \in ServerReplies :
          ScreensBehind /\ SendMessageDone(t, outcome, reply) /\ Stamp
    \/ ScreensBehind /\ VoicePlaceholder /\ Stamp
    \/ ScreensBehind /\ HandleVoiceInput /\ Stamp
    \/ \E t \in tasks, outcome \in {"ok", "denied", "throw"} :
          ScreensBehind /\ StartRecordingDone(t, outcome) /\ Stamp
    \/ \E t \in tasks, outcome \in {"ok", "throw"}, hasUri \in BOOLEAN :
          ScreensBehind /\ StopAndUnloadDone(t, outcome, hasUri) /\ Stamp
    \/ \E t \in tasks, outcome \in {"ok", "throw"} :
          ScreensBehind /\ ReadFileDone(t, outcome) /\ Stamp
    \/ \E t \in tasks, outcome \in FetchOutcomes, text \in Transcriptions :
          ScreensBehind /\ SpeechToTextDone(t, outcome, text) /\ Stamp
    \/ \E i \in 1..Len(alerts) :
          ScreensBehind /\ TranscriptionSend(i) /\ Stamp
    \/ \E i \in 1..Len(alerts) :
          ScreensBehind /\ DismissAlert(i) /\ Stamp

----------------------------------------------------------------------------
(* Login, and Index that mounts the variant taking onLoginSuccess *)

Usernames == { <<>>, <<" ">>, <<"a">>, <<" ", "a", " ">> }
LoginPasswords == { <<>>, <<" ">>, <<"p">> }

LoginMounted ==
    login = [ username        |-> <<>>,
              password        |-> <<>>,
              isLoading       |-> FALSE,
              isAuthenticated |-> FALSE ]

\* the screen is in front and no dialog covers it
CanTouch == alerts = <<>> /\ route = <<>>

\* onChangeText={setUsername}; setDisplayName in the onLoginSuccess variant
SetUsername(text) ==
    /\ CanTouch
    /\ text # login.username
    /\ login' = [login EXCEPT !.username = text]
    /\ UNCHANGED <<variant, tasks, alerts, route>>

\* onChangeText={setPassword}
SetPassword(text) ==
    /\ CanTouch
    /\ text # login.password
    /\ login' = [login EXCEPT !.password = text]
    /\ UNCHANGED <<variant, tasks, alerts, route>>

\* Login.validateForm without the trim of the username
LoginValidateFormNoTrim ==
    IF login.username = <<>> THEN "username"
    ELSE IF login.password = <<>> THEN "password"
    ELSE "ok"

\* Login.validateForm: "ok", or the field whose check fails
LoginValidateForm ==
    IF Trim(login.username) = <<>> THEN "username"
    ELSE IF login.password = <<>> THEN "password"
    ELSE "ok"

\* the guard at the top of handleLogin of the onLoginSuccess variant
LoginFieldsPresent == login.username # <<>> /\ login.password # <<>>

\* handleLogin up to its await; the button is disabled while isLoading
HandleLogin ==
    /\ CanTouch
    /\ ~login.isLoading
    /\ IF variant = "router"
       THEN IF LoginValidateForm = "ok"
            THEN /\ login' = [login EXCEPT !.isLoading = TRUE]
                 /\ tasks' = tasks \cup
                      { [ op       |-> "handleLogin",
                          url      |-> "/auth/login",
                          username |-> Trim(login.username),
                          password |-> login.password ] }
                 /\ UNCHANGED alerts
            ELSE /\ alerts' = Append(alerts, Notice("Validation Error"))
                 /\ UNCHANGED <<login, tasks>>
       ELSE IF LoginFieldsPresent
            THEN /\ login' = [login EXCEPT !.isLoading = TRUE]
                 /\ tasks' = tasks \cup { [op |-> "handleLogin", url |-> "setTimeout"] }
                 /\ UNCHANGED alerts
            ELSE /\ alerts' = Append(alerts, Notice("Alert"))
                 /\ UNCHANGED <<login, tasks>>
    /\ UNCHANGED <<variant, route>>

\* handleLogin after its awaits, without the finally block: isLoading is
\* reset at the end of the try block only
LoginResponseNoFinally(t, outcome) ==
    /\ variant = "router"
    /\ t.op = "handleLogin"
    /\ Len(alerts) < MaxAlerts
    /\ alerts' = Append(alerts,
                        CASE outcome = "ok"    -> Notice("Success")
                          [] outcome = "notOk" -> Notice("Login Error")
                          [] outcome = "throw" -> Notice("Network Error"))
    /\ login' = IF outcome = "throw" THEN login
                ELSE [login EXCEPT !.isLoading = FALSE]
    /\ tasks' = tasks \ {t}
    /\ UNCHANGED <<variant, route>>

\* handleLogin after its awaits of fetch and response.json()
LoginResponse(t, outcome) ==
    /\ variant = "router"
    /\ t.op = "handleLogin"
    /\ Len(alerts) < MaxAlerts
    /\ alerts' = Append(alerts,
                        CASE outcome = "ok"    -> Notice("Success")
                          [] outcome = "notOk" -> Notice("Login Error")
                          [] outcome = "throw" -> Notice("Network Error"))
    /\ login' = [login EXCEPT !.isLoading = FALSE]
    /\ tasks' = tasks \ {t}
    /\ UNCHANGED <<variant, route>>

\* handleLogin of the onLoginSuccess variant after its simulated API call:
\* Index.handleLoginSuccess, then the finally
LoginTimeout(t) ==
    /\ variant = "callback"
    /\ t.op = "handleLogin"
    /\ login' = [login EXCEPT !.isAuthenticated = TRUE, !.isLoading = FALSE]
    /\ route' = Append(route, "/(tabs)")
    /\ tasks' = tasks \ {t}
    /\ UNCHANGED <<variant, alerts>>

\* the OK handler of the success alert, were it given to every alert of Login
LoginAnyAlertOk(i) ==
    /\ variant = "router"
    /\ alerts' = Remove(alerts, i)
    /\ login' = [login EXCEPT !.username = <<>>, !.password = <<>>]
    /\ route' = Append(route, "/(tabs)")
    /\ UNCHANGED <<variant, tasks>>

\* OK of the 'Login successful!' alert
LoginSuccessOk(i) ==
    /\ variant = "router"
    /\ alerts[i].title = "Success"
    /\ alerts' = Remove(alerts, i)
    /\ login' = [login EXCEPT !.username = <<>>, !.password = <<>>]
    /\ route' = Append(route, "/(tabs)")
    /\ UNCHANGED <<variant, tasks>>

\* the screen in front; the other screens stay as they were mounted
LoginInFront ==
    /\ variant \in {"router", "callback"}
    /\ UNCHANGED <<therapist, audio, stamps, account, report, linking, home, community, device, issued>>

LoginNext ==
    \/ \E text \in Usernames :
          LoginInFront /\ SetUsername(text)
    \/ \E text \in LoginPasswords :
          LoginInFront /\ SetPassword(text)
    \/ LoginInFront /\ HandleLogin
    \/ \E t \in tasks, outcome \in FetchOutcomes :
          LoginInFront /\ LoginResponse(t, outcome)
    \/ \E t \in tasks :
          LoginInFront /\ LoginTimeout(t)
    \/ \E i \in 1..Len(alerts) :
          LoginInFront /\ LoginSuccessOk(i)
    \/ \E i \in 1..Len(alerts) :
          LoginInFront /\ DismissAlert(i)

----------------------------------------------------------------------------
(* CreateAccount *)

DisplayNames ==
    { <<>>, <<" ", " ", " ">>, <<"a", "b">>, <<" ", "a", "b", " ">>,
      <<"a", "b", "c">>, <<"A", " ", "!">>, <<"!", "!", "!">> }

Emails ==
    { <<>>, <<"a", "@", "b">>, <<"a", "@", "b", ".", "c">>,
      <<" ", "a", "@", "b", ".", "c">>, <<"a", "@", ".", "c">>,
      <<"a", "@", "b", "@", "c", ".", "d">> }

AccountPasswords ==
    { <<>>,
      <<"1", "2", "3", "4", "5", "6", "7">>,
      <<"1", "2", "3", "4", "5", "6", "7", "8">> }

\* what Math.floor(Math.random() * 1000) can return, sampled
RandomNumbers == {0, 7, 42, 999}

AccountMounted ==
    account = [ displayName |-> <<>>,
                email       |-> <<>>,
                password    |-> <<>>,
                isLoading   |-> FALSE ]

\* emailRegex.test(email) for /^[^\s@]+@[^\s@]+\.[^\s@]+$/
IsValidEmail(email) ==
    \E at \in 1..Len(email), dot \in 1..Len(email) :
        /\ email[at] = "@"
        /\ email[dot] = "."
        /\ 1 < at
        /\ at + 1 < dot
        /\ dot < Len(email)
        /\ \A k \in 1..Len(email) :
              k # at => email[k] \notin WhiteSpace \cup {"@"}

\* CreateAccount.validateForm: "ok", or the check that fails
AccountValidateForm ==
    IF Trim(account.displayName) = <<>> THEN "displayName"
    ELSE IF Len(Trim(account.displayName)) < 3 THEN "displayNameLength"
    ELSE IF Trim(account.email) = <<>> THEN "email"
    ELSE IF ~IsValidEmail(account.email) THEN "emailPattern"
    ELSE IF account.password = <<>> THEN "password"
    ELSE IF Len(account.password) < 8 THEN "passwordLength"
    ELSE "ok"

UpperCase == {"A"}
Lower(c) == IF c = "A" THEN "a" ELSE c
LowerAlnum == {"a", "b", "c", "0", "1", "2", "3", "4", "5", "6", "7", "8", "9"}

\* s.toLowerCase()
ToLowerCase(s) == [k \in 1..Len(s) |-> Lower(s[k])]

\* s.replace(/[^a-z0-9]/g, '')
RECURSIVE KeepLowerAlnum(_)
KeepLowerAlnum(s) ==
    IF s = <<>> THEN <<>>
    ELSE IF Head(s) \in LowerAlnum THEN <<Head(s)>> \o KeepLowerAlnum(Tail(s))
    ELSE KeepLowerAlnum(Tail(s))

DigitChar(d) == <<"0", "1", "2", "3", "4", "5", "6", "7", "8", "9">>[d + 1]

\* the decimal digits of n, as string concatenation writes a number
RECURSIVE NumberToString(_)
NumberToString(n) ==
    IF n < 10 THEN <<DigitChar(n)>>
    ELSE NumberToString(n \div 10) \o <<DigitChar(n % 10)>>

\* generateUsername, were a three-character name too short as well
GenerateUsernameAtMost3(displayName, random) ==
    LET username == KeepLowerAlnum(ToLowerCase(Trim(displayName))) IN
    IF Len(username) <= 3 THEN username \o NumberToString(random) ELSE username

\* generateUsername; random is the value of Math.floor(Math.random() * 1000)
GenerateUsername(displayName, random) ==
    LET username == KeepLowerAlnum(ToLowerCase(Trim(displayName))) IN
    IF Len(username) < 3 THEN username \o NumberToString(random) ELSE username

SetAccountField(field, text) ==
    /\ CanTouch
    /\ text # account[field]
    /\ account' = [account EXCEPT ![field] = text]
    /\ UNCHANGED <<variant, tasks, alerts, route>>

\* handleSubmit up to its await; the button is disabled while isLoading
HandleSubmit(random) ==
    /\ CanTouch
    /\ ~account.isLoading
    /\ IF AccountValidateForm = "ok"
       THEN /\ account' = [account EXCEPT !.isLoading = TRUE]
            /\ tasks' = tasks \cup
                 { [ op           |-> "handleSubmit",
                     url          |-> "/auth/register",
                     username     |-> GenerateUsername(account.displayName, random),
                     email        |-> Trim(account.email),
                     password     |-> account.password,
                     display_name |-> Trim(account.displayName) ] }
            /\ UNCHANGED alerts
       ELSE /\ alerts' = Append(alerts, Notice("Validation Error"))
            /\ UNCHANGED <<account, tasks>>
    /\ UNCHANGED <<variant, route>>

\* handleSubmit after its awaits of fetch and response.json()
RegisterResponse(t, outcome) ==
    /\ t.op = "handleSubmit"
    /\ Len(alerts) < MaxAlerts
    /\ alerts' = Append(alerts,
                        CASE outcome = "ok"    -> Notice("Success")
                          [] outcome = "notOk" -> Notice("Registration Error")
                          [] outcome = "throw" -> Notice("Network Error"))
    /\ account' = [account EXCEPT !.isLoading = FALSE]
    /\ tasks' = tasks \ {t}
    /\ UNCHANGED <<variant, route>>

\* OK of the 'Account created successfully!' alert
RegisterSuccessOk(i) ==
    /\ alerts[i].title = "Success"
    /\ alerts' = Remove(alerts, i)
    /\ account' = [account EXCEPT !.displayName = <<>>, !.email = <<>>,
                                  !.password = <<>>]
    /\ route' = Append(route, "/login")
    /\ UNCHANGED <<variant, tasks>>

\* the screen in front; the other screens stay as they were mounted
AccountInFront ==
    /\ variant = "account"
    /\ UNCHANGED <<therapist, audio, stamps, login, report, linking, home, community, device, issued>>

AccountNext ==
    \/ \E text \in DisplayNames :
          AccountInFront /\ SetAccountField("displayName", text)
    \/ \E text \in Emails :
          AccountInFront /\ SetAccountField("email", text)
    \/ \E text \in AccountPasswords :
          AccountInFront /\ SetAccountField("password", text)
    \/ \E random \in RandomNumbers :
          AccountInFront /\ HandleSubmit(random)
    \/ \E t \in tasks, outcome \in FetchOutcomes :
          AccountInFront /\ RegisterResponse(t, outcome)
    \/ \E i \in 1..Len(alerts) :
          AccountInFront /\ RegisterSuccessOk(i)
    \/ \E i \in 1..Len(alerts) :
          AccountInFront /\ DismissAlert(i)

----------------------------------------------------------------------------
(* SafeReport *)

CallTypes == {"emergency", "suicide", "domestic_violence_women", "domestic_violence_men"}
FormTypes == {"child_abuse", "crime_violence"}
ReportTypeIds == CallTypes \cup FormTypes

\* reportTypes.find(r => r.id === type)?.action; the grid of the variant
\* without a form has no action field
ActionOf(type) == IF type \in CallTypes THEN "call" ELSE "report"

\* phoneNumbers[type], "" when the directory has no entry
PhoneNumber(type) ==
    IF variant = "form"
    THEN CASE type = "emergency"               -> "119"
           [] type = "suicide"                 -> "1-888-429-5343"
           [] type = "domestic_violence_women" -> "1-888-991-4444"
           [] type = "domestic_violence_men"   -> "1-800-799-7233"
           [] OTHER                            -> ""
    ELSE CASE type = "emergency"               -> "119"
           [] type = "suicide"                 -> "888-639-5433"
           [] type = "domestic_violence_women" -> "876-929-2997"
           [] type = "domestic_violence_men"   -> "888-429-5463"
           [] type = "child_abuse"             -> "888-776-7328"
           [] type = "crime_violence"          -> "311"

ReportContents == { <<>>, <<" ">>, <<"x">>, <<" ", "x", " ">> }
Locations == { <<>>, <<"y", " ">> }

\* posted is history, not a cell of the component: the form as it stands has
\* been sent to /reports and the user has not changed it since
ReportMounted ==
    /\ report = [ selectedType  |-> "",
                  reportContent |-> <<>>,
                  location      |-> <<>>,
                  isAnonymous   |-> TRUE,
                  isLoading     |-> FALSE,
                  posted        |-> FALSE ]
    /\ linking = {}

\* the condition under which the report form is rendered
FormVisible ==
    /\ variant = "form"
    /\ report.selectedType # ""
    /\ ActionOf(report.selectedType) = "report"

HandleEmergencyCall(type) ==
    IF PhoneNumber(type) # ""
    THEN alerts' = Append(alerts, [ title  |-> "Emergency Call",
                                    number |-> PhoneNumber(type) ])
    ELSE UNCHANGED alerts

\* a card of the grid is tapped, were every tapped card selected before its
\* action is looked at
TapCardSelectsAll(type) ==
    /\ CanTouch
    /\ report' = IF variant = "form" THEN [report EXCEPT !.selectedType = type,
                                       !.posted = @ /\ type = report.selectedType]
                 ELSE report
    /\ IF variant = "form" /\ ActionOf(type) # "call"
       THEN UNCHANGED alerts
       ELSE HandleEmergencyCall(type)
    /\ UNCHANGED <<variant, linking, tasks, route>>

\* a card of the grid is tapped, were the number of a call card dialled at
\* once, without the confirmation
TapCardDirect(type) ==
    /\ CanTouch
    /\ IF variant = "form" /\ ActionOf(type) # "call"
       THEN /\ report' = [report EXCEPT !.selectedType = type,
                                       !.posted = @ /\ type = report.selectedType]
            /\ UNCHANGED linking
       ELSE /\ PhoneNumber(type) # ""
            /\ linking' = linking \cup { <<"tel:", PhoneNumber(type)>> }
            /\ UNCHANGED report
    /\ UNCHANGED <<variant, alerts, tasks, route>>

\* a card of the grid is tapped: handleTypeSelect, or handleEmergencyCall
\* in the variant whose cards all call
TapCard(type) ==
    /\ CanTouch
    /\ IF variant = "form" /\ ActionOf(type) # "call"
       THEN /\ report' = [report EXCEPT !.selectedType = type,
                                       !.posted = @ /\ type = report.selectedType]
            /\ UNCHANGED alerts
       ELSE /\ HandleEmergencyCall(type)
            /\ UNCHANGED report
    /\ UNCHANGED <<variant, linking, tasks, route>>

\* 'Call Now' of the call confirmation
CallNow(i) ==
    /\ alerts[i].title = "Emergency Call"
    /\ linking' = linking \cup { <<"tel:", alerts[i].number>> }
    /\ alerts' = Remove(alerts, i)
    /\ UNCHANGED <<variant, report, tasks, route>>

SetReportField(field, text) ==
    /\ CanTouch
    /\ FormVisible
    /\ text # report[field]
    /\ report' = [report EXCEPT ![field] = text, !.posted = FALSE]
    /\ UNCHANGED <<variant, linking, tasks, alerts, route>>

\* onPress={() => setIsAnonymous(!isAnonymous)}
ToggleAnonymous ==
    /\ CanTouch
    /\ FormVisible
    /\ report' = [report EXCEPT !.isAnonymous = ~@, !.posted = FALSE]
    /\ UNCHANGED <<variant, linking, tasks, alerts, route>>

\* SafeReport.validateForm: "ok", or the field whose check fails
ReportValidateForm ==
    IF report.selectedType = "" THEN "selectedType"
    ELSE IF Trim(report.reportContent) = <<>> THEN "reportContent"
    ELSE "ok"

\* handleSubmitReport up to its await, were the button not disabled while
\* isLoading
HandleSubmitReportEnabled ==
    /\ CanTouch
    /\ FormVisible
    /\ IF ReportValidateForm = "ok"
       THEN /\ report' = [report EXCEPT !.isLoading = TRUE, !.posted = TRUE]
            /\ tasks' = tasks \cup
                 { [ op           |-> "handleSubmitReport",
                     url          |-> "/reports",
                     report_type  |-> report.selectedType,
                     content      |-> Trim(report.reportContent),
                     location     |-> Trim(report.location),
                     is_anonymous |-> report.isAnonymous ] }
            /\ UNCHANGED alerts
       ELSE /\ alerts' = Append(alerts, Notice("Validation Error"))
            /\ UNCHANGED <<report, tasks>>
    /\ UNCHANGED <<variant, linking, route>>

\* handleSubmitReport up to its await; the button is disabled while isLoading
HandleSubmitReport ==
    /\ CanTouch
    /\ FormVisible
    /\ ~report.isLoading
    /\ IF ReportValidateForm = "ok"
       THEN /\ report' = [report EXCEPT !.isLoading = TRUE, !.posted = TRUE]
            /\ tasks' = tasks \cup
                 { [ op           |-> "handleSubmitReport",
                     url          |-> "/reports",
                     report_type  |-> report.selectedType,
                     content      |-> Trim(report.reportContent),
                     location     |-> Trim(report.location),
                     is_anonymous |-> report.isAnonymous ] }
            /\ UNCHANGED alerts
       ELSE /\ alerts' = Append(alerts, Notice("Validation Error"))
            /\ UNCHANGED <<report, tasks>>
    /\ UNCHANGED <<variant, linking, route>>

\* handleSubmitReport after its awaits, were the form reset whenever the
\* request has ended instead of from the OK button of the success alert
ReportResponseClearing(t, outcome) ==
    /\ t.op = "handleSubmitReport"
    /\ Len(alerts) < MaxAlerts
    /\ alerts' = Append(alerts,
                        CASE outcome = "ok"    -> Notice("Report Submitted")
                          [] outcome = "notOk" -> Notice("Submission Error")
                          [] outcome = "throw" -> Notice("Network Error"))
    /\ report' = [report EXCEPT !.selectedType = "", !.reportContent = <<>>,
                                !.location = <<>>, !.isLoading = FALSE,
                                !.posted = FALSE]
    /\ tasks' = tasks \ {t}
    /\ UNCHANGED <<variant, linking, route>>

\* handleSubmitReport after its awaits of fetch and response.json()
ReportResponse(t, outcome) ==
    /\ t.op = "handleSubmitReport"
    /\ Len(alerts) < MaxAlerts
    /\ alerts' = Append(alerts,
                        CASE outcome = "ok"    -> Notice("Report Submitted")
                          [] outcome = "notOk" -> Notice("Submission Error")
                          [] outcome = "throw" -> Notice("Network Error"))
    /\ report' = [report EXCEPT !.isLoading = FALSE]
    /\ tasks' = tasks \ {t}
    /\ UNCHANGED <<variant, linking, route>>

\* OK of the 'Report Submitted' alert
ReportSubmittedOk(i) ==
    /\ alerts[i].title = "Report Submitted"
    /\ alerts' = Remove(alerts, i)
    /\ report' = [report EXCEPT !.selectedType = "", !.reportContent = <<>>,
                                !.location = <<>>, !.posted = FALSE]
    /\ route' = Append(route, "back")
    /\ UNCHANGED <<variant, linking, tasks>>

\* the screen in front; the other screens stay as they were mounted
ReportInFront ==
    /\ UNCHANGED <<therapist, audio, stamps, login, account, home, community, device, issued>>

ReportNext ==
    \/ \E type \in ReportTypeIds :
          ReportInFront /\ TapCard(type)
    \/ \E i \in 1..Len(alerts) :
          ReportInFront /\ CallNow(i)
    \/ \E text \in ReportContents :
          ReportInFront /\ SetReportField("reportContent", text)
    \/ \E text \in Locations :
          ReportInFront /\ SetReportField("location", text)
    \/ ReportInFront /\ ToggleAnonymous
    \/ ReportInFront /\ HandleSubmitReport
    \/ \E t \in tasks, outcome \in FetchOutcomes :
          ReportInFront /\ ReportResponse(t, outcome)
    \/ \E i \in 1..Len(alerts) :
          ReportInFront /\ ReportSubmittedOk(i)
    \/ \E i \in 1..Len(alerts) :
          ReportInFront /\ DismissAlert(i)

----------------------------------------------------------------------------
(* HomeScreen, and the HomePage variant without a backend *)

Moods == {"good", "joyful", "sad", "bored", "angry", "stressed"}
NoMood == "null"
NoUser == "null"
Hours == 0..23

\* the branches of setGreetingBasedOnTime
GreetingOf(hour) ==
    IF hour < 12 THEN "Good Morning"
    ELSE IF hour < 18 THEN "Good Afternoon"
    ELSE "Good Evening"

\* the component after its mount effect has called setGreetingBasedOnTime;
\* HomePage renders the text 'Good Morning' and keeps no greeting cell
HomeMounted(hour) ==
    home = [ selectedMood |-> NoMood,
             user         |-> NoUser,
             loading      |-> TRUE,
             greeting     |-> GreetingOf(hour) ]

\* the text of the greeting badge: the greeting cell in HomeScreen, a
\* literal in HomePage
GreetingShown == IF variant = "HomePage" THEN "Good Morning" ELSE home.greeting

\* token && userId
SignedIn == device.token /\ device.userId

\* loadUserData after its awaits: the two AsyncStorage reads and, when both
\* values are present, GET /users/{id}
LoadUserDataDone(t, outcome) ==
    /\ t.op = "loadUserData"
    /\ IF ~SignedIn
       THEN /\ outcome = "ok"
            /\ home' = [home EXCEPT !.loading = FALSE]
            /\ UNCHANGED alerts
       ELSE IF outcome = "ok"
       THEN /\ home' = [home EXCEPT !.user = "userData", !.loading = FALSE]
            /\ UNCHANGED alerts
       ELSE /\ home' = [home EXCEPT !.loading = FALSE]
            /\ alerts' = Append(alerts, Notice("Error"))
    /\ tasks' = tasks \ {t}
    /\ UNCHANGED <<variant, device, issued, route>>

\* handleMoodSelection up to its first await.  The task remembers the mood
\* that was highlighted when the button was tapped.
HandleMoodSelection(mood) ==
    /\ variant = "HomeScreen"
    /\ CanTouch
    /\ ~home.loading
    /\ issued < MaxTaps
    /\ issued' = issued + 1
    /\ home' = [home EXCEPT !.selectedMood = mood]
    /\ tasks' = tasks \cup { [ op       |-> "handleMoodSelection",
                               call     |-> issued + 1,
                               mood     |-> mood,
                               previous |-> home.selectedMood ] }
    /\ UNCHANGED <<variant, device, alerts, route>>

\* handleMoodSelection after its awaits, were the highlight set back to the
\* mood shown before the tap when the POST fails
MoodResponseRollback(t, outcome) ==
    /\ t.op = "handleMoodSelection"
    /\ IF ~SignedIn
       THEN /\ outcome = "ok"
            /\ UNCHANGED <<alerts, home>>
       ELSE CASE outcome = "ok" ->
                   /\ Len(alerts) < MaxAlerts
                   /\ alerts' = Append(alerts, Notice("Mood Recorded"))
                   /\ UNCHANGED home
              [] outcome \in {"notOk", "throw"} ->
                   /\ Len(alerts) < MaxAlerts
                   /\ alerts' = Append(alerts, Notice("Error"))
                   /\ home' = [home EXCEPT !.selectedMood = t.previous]
    /\ tasks' = tasks \ {t}
    /\ UNCHANGED <<variant, device, issued, route>>

\* handleMoodSelection after its awaits: the two AsyncStorage reads and, when
\* both values are present, POST /mood/history/{userId}
MoodResponse(t, outcome) ==
    /\ t.op = "handleMoodSelection"
    /\ IF ~SignedIn
       THEN /\ outcome = "ok"
            /\ UNCHANGED alerts
       ELSE CASE outcome = "ok" ->
                   /\ Len(alerts) < MaxAlerts
                   /\ alerts' = Append(alerts, Notice("Mood Recorded"))
              [] outcome = "notOk" ->
                   UNCHANGED alerts
              [] outcome = "throw" ->
                   /\ Len(alerts) < MaxAlerts
                   /\ alerts' = Append(alerts, Notice("Error"))
    /\ tasks' = tasks \ {t}
    /\ UNCHANGED <<variant, home, device, issued, route>>

\* HomePage.handleMoodSelect
HandleMoodSelect(mood) ==
    /\ variant = "HomePage"
    /\ CanTouch
    /\ mood # home.selectedMood
    /\ home' = [home EXCEPT !.selectedMood = mood]
    /\ UNCHANGED <<variant, device, issued, tasks, alerts, route>>

\* the screen in front; the other screens stay as they were mounted
HomeInFront ==
    /\ variant \in {"HomeScreen", "HomePage"}
    /\ UNCHANGED <<therapist, audio, stamps, login, account, report, linking, community>>

HomeNext ==
    \/ \E t \in tasks, outcome \in FetchOutcomes :
          HomeInFront /\ LoadUserDataDone(t, outcome)
    \/ \E mood \in Moods :
          HomeInFront /\ HandleMoodSelection(mood)
    \/ \E t \in tasks, outcome \in FetchOutcomes :
          HomeInFront /\ MoodResponse(t, outcome)
    \/ \E mood \in Moods :
          HomeInFront /\ HandleMoodSelect(mood)
    \/ \E i \in 1..Len(alerts) :
          HomeInFront /\ DismissAlert(i)

----------------------------------------------------------------------------
(* CommunityScreen, which slices the fetched list, and the Community variant
   built on axios, whose recommendedCommunities cell is the field communities *)

\* the lists GET /communities can answer with; a community is its id
ServerLists == { <<>>, <<1, 2, 3>>, <<1, 2, 3, 4, 5>>, <<1, 2, 3, 4, 5, 6, 7, 8>> }

Min(a, b) == IF a < b THEN a ELSE b

\* a slice that takes the element at index end as well
SliceInclusive(list, start, end) == SubSeq(list, start + 1, Min(end + 1, Len(list)))

\* Array.prototype.slice(start, end) for 0 <= start <= end
Slice(list, start, end) == SubSeq(list, start + 1, Min(end, Len(list)))

Elements(list) == { list[k] : k \in 1..Len(list) }

\* latest is history, not a cell of the component: among the fetches of
\* loadCommunities answered OK so far, the one issued last, and its list
CommunityMounted ==
    community = [ communities   |-> <<>>,
                  myCommunities |-> <<>>,
                  loading       |-> TRUE,
                  refreshing    |-> FALSE,
                  latest        |-> [call |-> 0, list |-> <<>>] ]

\* a call of an async handler of the screen
NewCall(fields) ==
    /\ issued < MaxCalls
    /\ issued' = issued + 1
    /\ tasks' = tasks \cup { fields }

\* loadCommunities, were loading and refreshing reset at the end of the try
\* block and not in a finally: the return of the missing-token path and the
\* catch skip the reset
LoadCommunitiesDoneNoFinally(t, outcome, list) ==
    /\ variant = "slicing"
    /\ t.op = "loadCommunities"
    /\ IF ~device.token
       THEN /\ outcome = "ok" /\ list = <<>>
            /\ Len(alerts) < MaxAlerts
            /\ alerts' = Append(alerts, Notice("Error"))
            /\ UNCHANGED community
       ELSE IF outcome = "ok"
       THEN /\ community' = [community EXCEPT
                               !.myCommunities = Slice(list, 0, 4),
                               !.communities = Slice(list, 4, 7),
                               !.loading = FALSE,
                               !.refreshing = FALSE,
                               !.latest = IF t.call > @.call
                                          THEN [call |-> t.call, list |-> list]
                                          ELSE @]
            /\ UNCHANGED alerts
       ELSE /\ list = <<>>
            /\ Len(alerts) < MaxAlerts
            /\ alerts' = Append(alerts, Notice("Error"))
            /\ UNCHANGED community
    /\ tasks' = tasks \ {t}
    /\ UNCHANGED <<variant, device, issued, route>>

\* loadCommunities after its awaits: the AsyncStorage read and, when there is
\* a token, GET /communities and response.json()
LoadCommunitiesDone(t, outcome, list) ==
    /\ variant = "slicing"
    /\ t.op = "loadCommunities"
    /\ IF ~device.token
       THEN /\ outcome = "ok" /\ list = <<>>
            /\ Len(alerts) < MaxAlerts
            /\ alerts' = Append(alerts, Notice("Error"))
            /\ community' = [community EXCEPT !.loading = FALSE,
                                              !.refreshing = FALSE]
       ELSE IF outcome = "ok"
       THEN /\ community' = [community EXCEPT
                               !.myCommunities = Slice(list, 0, 4),
                               !.communities = Slice(list, 4, 7),
                               !.loading = FALSE,
                               !.refreshing = FALSE,
                               !.latest = IF t.call > @.call
                                          THEN [call |-> t.call, list |-> list]
                                          ELSE @]
            /\ UNCHANGED alerts
       ELSE /\ list = <<>>
            /\ Len(alerts) < MaxAlerts
            /\ alerts' = Append(alerts, Notice("Error"))
            /\ community' = [community EXCEPT !.loading = FALSE,
                                              !.refreshing = FALSE]
    /\ tasks' = tasks \ {t}
    /\ UNCHANGED <<variant, device, issued, route>>

\* the list is rendered once loading is false
ListVisible == CanTouch /\ (variant = "slicing" => ~community.loading)

\* onRefresh; the RefreshControl starts no refresh while refreshing is true
OnRefresh ==
    /\ variant = "slicing"
    /\ ListVisible
    /\ ~community.refreshing
    /\ community' = [community EXCEPT !.refreshing = TRUE]
    /\ NewCall([op |-> "loadCommunities", call |-> issued + 1])
    /\ UNCHANGED <<variant, device, alerts, route>>

\* handleJoinCommunity up to its first await, from the Join button of a
\* recommended community
HandleJoinCommunity(communityId) ==
    /\ variant = "slicing"
    /\ ListVisible
    /\ communityId \in Elements(community.communities)
    /\ NewCall([op |-> "handleJoinCommunity", call |-> issued + 1,
                communityId |-> communityId])
    /\ UNCHANGED <<variant, community, device, alerts, route>>

\* handleJoinCommunity after its awaits: the AsyncStorage read and, when there
\* is a token, POST /communities/{id}/join; on success loadCommunities is called
HandleJoinCommunityDone(t, outcome) ==
    /\ variant = "slicing"
    /\ t.op = "handleJoinCommunity"
    /\ IF ~device.token
       THEN /\ outcome = "ok"
            /\ tasks' = tasks \ {t}
            /\ UNCHANGED <<alerts, issued>>
       ELSE IF outcome = "ok"
       THEN /\ Len(alerts) < MaxAlerts
            /\ alerts' = Append(alerts, Notice("Success"))
            /\ issued < MaxCalls
            /\ issued' = issued + 1
            /\ tasks' = (tasks \ {t}) \cup
                          { [op |-> "loadCommunities", call |-> issued + 1] }
       ELSE /\ Len(alerts) < MaxAlerts
            /\ alerts' = Append(alerts, Notice("Error"))
            /\ tasks' = tasks \ {t}
            /\ UNCHANGED issued
    /\ UNCHANGED <<variant, community, device, route>>

\* fetchCommunities after its await of axios.get, which rejects on a non-2xx status
FetchCommunitiesDone(t, outcome, list) ==
    /\ variant = "axios"
    /\ t.op = "fetchCommunities"
    /\ IF outcome = "ok"
       THEN community' = [community EXCEPT !.communities = list]
       ELSE list = <<>> /\ UNCHANGED community
    /\ tasks' = tasks \ {t}
    /\ UNCHANGED <<variant, device, issued, alerts, route>>

\* createCommunity up to its await, from the add button of the header
CreateCommunity ==
    /\ variant = "axios"
    /\ ListVisible
    /\ NewCall([op |-> "createCommunity", call |-> issued + 1])
    /\ UNCHANGED <<variant, community, device, alerts, route>>

\* createCommunity after its await of axios.post; on success fetchCommunities is called
CreateCommunityDone(t, outcome) ==
    /\ variant = "axios"
    /\ t.op = "createCommunity"
    /\ IF outcome = "ok"
       THEN /\ Len(alerts) < MaxAlerts
            /\ alerts' = Append(alerts, Notice("Success"))
            /\ issued < MaxCalls
            /\ issued' = issued + 1
            /\ tasks' = (tasks \ {t}) \cup
                          { [op |-> "fetchCommunities", call |-> issued + 1] }
       ELSE /\ tasks' = tasks \ {t}
            /\ UNCHANGED <<alerts, issued>>
    /\ UNCHANGED <<variant, community, device, route>>

\* joinCommunity up to its await, from the Join link of a recommended community
JoinCommunity(communityId) ==
    /\ variant = "axios"
    /\ ListVisible
    /\ communityId \in Elements(community.communities)
    /\ NewCall([op |-> "joinCommunity", call |-> issued + 1,
                communityId |-> communityId])
    /\ UNCHANGED <<variant, community, device, alerts, route>>

\* joinCommunity after its await of axios.post
JoinCommunityDone(t, outcome) ==
    /\ variant = "axios"
    /\ t.op = "joinCommunity"
    /\ IF outcome = "ok"
       THEN /\ Len(alerts) < MaxAlerts
            /\ alerts' = Append(alerts, Notice("Joined"))
       ELSE UNCHANGED alerts
    /\ tasks' = tasks \ {t}
    /\ UNCHANGED <<variant, community, device, issued, route>>

\* the screen in front; the other screens stay as they were mounted
CommunityInFront ==
    /\ variant \in {"slicing", "axios"}
    /\ UNCHANGED <<therapist, audio, stamps, login, account, report, linking, home>>

CommunityNext ==
    \/ \E t \in tasks, outcome \in FetchOutcomes, list \in ServerLists :
          CommunityInFront /\ LoadCommunitiesDone(t, outcome, list)
    \/ CommunityInFront /\ OnRefresh
    \/ \E id \in 1..8 :
          CommunityInFront /\ HandleJoinCommunity(id)
    \/ \E t \in tasks, outcome \in FetchOutcomes :
          CommunityInFront /\ HandleJoinCommunityDone(t, outcome)
    \/ \E t \in tasks, outcome \in FetchOutcomes, list \in ServerLists :
          CommunityInFront /\ FetchCommunitiesDone(t, outcome, list)
    \/ CommunityInFront /\ CreateCommunity
    \/ \E t \in tasks, outcome \in FetchOutcomes :
          CommunityInFront /\ CreateCommunityDone(t, outcome)
    \/ \E id \in 1..8 :
          CommunityInFront /\ JoinCommunity(id)
    \/ \E t \in tasks, outcome \in FetchOutcomes :
          CommunityInFront /\ JoinCommunityDone(t, outcome)
    \/ \E i \in 1..Len(alerts) :
          CommunityInFront /\ DismissAlert(i)

----------------------------------------------------------------------------
(* Specifications: the router shows one screen *)

\* the storage and the clock of a device on which no screen has run yet
DeviceIdle == device = [hour |-> 0, token |-> FALSE, userId |-> FALSE] /\ issued = 0

HomeInit ==
    /\ variant \in {"HomeScreen", "HomePage"}
    /\ TherapistMounted /\ LoginMounted /\ AccountMounted /\ ReportMounted
    /\ CommunityMounted
    /\ device \in [hour : Hours, token : BOOLEAN, userId : BOOLEAN]
    /\ HomeMounted(device.hour)
    /\ issued = 0
    /\ tasks = IF variant = "HomeScreen" THEN { [op |-> "loadUserData"] } ELSE {}
    /\ alerts = <<>>
    /\ route = <<>>

CommunityInit ==
    /\ variant \in {"slicing", "axios"}
    /\ TherapistMounted /\ LoginMounted /\ AccountMounted /\ ReportMounted
    /\ HomeMounted(0) /\ CommunityMounted
    /\ device \in [hour : {0}, token : BOOLEAN, userId : BOOLEAN]
    /\ issued = 1
    /\ tasks = { [ op   |-> IF variant = "slicing" THEN "loadCommunities"
                                                  ELSE "fetchCommunities",
                   call |-> 1 ] }
    /\ alerts = <<>>
    /\ route = <<>>

OtherScreens ==
    /\ TherapistMounted /\ LoginMounted /\ AccountMounted /\ ReportMounted
    /\ DeviceIdle /\ HomeMounted(0) /\ CommunityMounted

TherapistInit ==
    /\ variant \in {"voice", "text"}
    /\ OtherScreens
    /\ tasks = { [op |-> "initializeSession"] }
    /\ alerts = <<>>
    /\ route = <<>>

\* the sign-in screen in one of its two variants, or the sign-up screen
AuthInit ==
    /\ variant \in {"router", "callback", "account"}
    /\ OtherScreens
    /\ tasks = {}
    /\ alerts = <<>>
    /\ route = <<>>

AuthNext == LoginNext \/ AccountNext

ReportInit ==
    /\ variant \in {"form", "calls"}
    /\ OtherScreens
    /\ tasks = {}
    /\ alerts = <<>>
    /\ route = <<>>

SpecTherapist == TherapistInit /\ [][TherapistNext]_vars

\* the fetch of a pending sendMessageToAPI resolves or rejects
FetchSettles ==
    \E t \in ChatRequests, outcome \in FetchOutcomes, reply \in ServerReplies :
       TherapistInFront /\ SendMessageDone(t, outcome, reply)

\* the AITherapist screen when the fetches of /chat/message settle
SpecTherapistFair ==
    /\ TherapistInit
    /\ [][TherapistNext]_vars
    /\ WF_vars(FetchSettles)

SpecTherapistIds == TherapistInit /\ [][TherapistIdsNext]_vars

\* the two tab screens that load on mount, the home screen at one hour of the day
TabsInit ==
    \/ HomeInit /\ device.hour = 0
    \/ CommunityInit

TabsNext == HomeNext \/ CommunityNext

\* the awaits of a pending loadUserData settle
LoadUserDataSettles ==
    \E t \in tasks, outcome \in FetchOutcomes :
       HomeInFront /\ LoadUserDataDone(t, outcome)

\* the awaits of a pending loadCommunities settle
LoadCommunitiesSettles ==
    \E t \in tasks, outcome \in FetchOutcomes, list \in ServerLists :
       CommunityInFront /\ LoadCommunitiesDone(t, outcome, list)

\* the home screen shows its loading view, or the community screen its
\* loading view or its refresh indicator
SpinnerShown ==
    \/ variant = "HomeScreen" /\ home.loading
    \/ variant = "slicing" /\ (community.loading \/ community.refreshing)

\* the tab screens when the awaited storage reads and fetches settle
SpecTabsFair ==
    /\ TabsInit
    /\ [][TabsNext]_vars
    /\ WF_vars(LoadUserDataSettles \/ LoadCommunitiesSettles)

SpecAuth == AuthInit /\ [][AuthNext]_vars

SpecReport == ReportInit /\ [][ReportNext]_vars

SpecHome == HomeInit /\ [][HomeNext]_vars

SpecCommunity == CommunityInit /\ [][CommunityNext]_vars

----------------------------------------------------------------------------
(* Properties of the AITherapist screen, under SpecTherapist *)

\* C1, as stated: when a send has succeeded and isLoading is false again, the
\* message list is exactly one longer than it was just before the send.
C1_Original ==
    [][ \A t \in tasks, reply \in ServerReplies :
          SendMessageDone(t, "ok", reply) =>
             Len(therapist'.messages) = (t.turn - 1) + 1 ]_vars

\* C1, amended: a successful send adds two messages.  Accepting the send
\* appends the user's message as the last of the list, the OK answer appends
\* the bot's message and resets isLoading; when no other message came in
\* between, the list is then two longer than it was just before the send.
C1_SuccessfulSendAddsTwo ==
    [][ /\ \A t \in ChatRequests' \ ChatRequests :
              /\ Len(therapist'.messages) = Len(therapist.messages) + 1
              /\ t.turn = Len(therapist'.messages)
        /\ \A t \in tasks, reply \in ServerReplies :
              SendMessageDone(t, "ok", reply) =>
                 /\ Len(therapist'.messages) = Len(therapist.messages) + 1
                 /\ Len(therapist.messages) = t.turn =>
                       Len(therapist'.messages) = (t.turn - 1) + 2
                 /\ ~therapist'.isLoading ]_vars

\* one send, answered with the server's text
C1_Witness ==
    /\ Len(therapist.messages) = Len(Seed) + 2
    /\ therapist.messages[Len(Seed) + 1].sender = "user"
    /\ therapist.messages[Len(Seed) + 2] = [sender |-> "bot", text |-> <<"o", "k">>]
    /\ ChatRequests = {}
    /\ ~therapist.isLoading

\* C2, as stated: isLoading is true in every state in which a POST
\* /chat/message is in flight.
C2_Original == ChatRequests # {} => therapist.isLoading

\* C3, as stated: every POST /chat/message and every POST /speech-to-text
\* carries the session id that POST /chat/session/start returned, never null.
C3_Original ==
    \A t \in tasks :
       /\ t.op = "sendMessageToAPI" => t.sessionId = SessionToken
       /\ (t.op = "stopRecording" /\ t.pc = "speechToText") =>
             t.closure.sessionId = SessionToken

\* C4: an accepted send appends the user's message at the end of the list
\* while its request is sent, before any answer; no step removes or changes
\* a message of the list, and when the request ends, with an OK status, a
\* non-OK status or an exception, the user's message is where it was appended.
C4_UserMessageStays ==
    [][ /\ Len(therapist.messages) <= Len(therapist'.messages)
        /\ SubSeq(therapist'.messages, 1, Len(therapist.messages)) = therapist.messages
        /\ \A t \in ChatRequests' \ ChatRequests :
              /\ t.turn = Len(therapist'.messages)
              /\ therapist'.messages[t.turn] = [sender |-> "user", text |-> t.message]
        /\ \A t \in tasks, outcome \in FetchOutcomes, reply \in ServerReplies :
              SendMessageDone(t, outcome, reply) =>
                 /\ t.turn < Len(therapist'.messages)
                 /\ therapist'.messages[t.turn] = [sender |-> "user", text |-> t.message]
      ]_vars

\* a failed request has ended and the user's message precedes the answer
C4_Witness ==
    /\ Len(therapist.messages) >= Len(Seed) + 2
    /\ therapist.messages[Len(therapist.messages)].text = TroubleReply
    /\ therapist.messages[Len(therapist.messages) - 1] =
          [sender |-> "user", text |-> <<"h", "i">>]

----------------------------------------------------------------------------
(* Properties of the home screen, under SpecHome *)

\* C6, as stated: when the POST of a mood fails, the highlighted mood is the
\* one that was highlighted before the tap, and an alert is shown.
C6_Original ==
    [][ \A t \in tasks, outcome \in {"notOk", "throw"} :
          (SignedIn /\ MoodResponse(t, outcome)) =>
             /\ home'.selectedMood = t.previous
             /\ Len(alerts') = Len(alerts) + 1 ]_vars

----------------------------------------------------------------------------
(* Properties of the Safe Report screen, under SpecReport *)

\* C7: a failed submission changes none of selectedType, reportContent,
\* location and isAnonymous, neither when Submit is pressed nor when the
\* request ends with a non-OK status or an exception; the failure raises its
\* error alert, does not navigate and leaves isLoading false.  The screen is
\* left only from the alert of a submitted report.
C7_FailedReportKeepsForm ==
    [][ /\ HandleSubmitReport =>
              /\ report'.selectedType = report.selectedType
              /\ report'.reportContent = report.reportContent
              /\ report'.location = report.location
              /\ report'.isAnonymous = report.isAnonymous
        /\ \A t \in tasks, outcome \in {"notOk", "throw"} :
              ReportResponse(t, outcome) =>
                 /\ report'.selectedType = report.selectedType
                 /\ report'.reportContent = report.reportContent
                 /\ report'.location = report.location
                 /\ report'.isAnonymous = report.isAnonymous
                 /\ alerts' = Append(alerts, Notice(IF outcome = "notOk"
                                                    THEN "Submission Error"
                                                    ELSE "Network Error"))
                 /\ route' = route
                 /\ ~report'.isLoading
        /\ route' # route =>
              \E i \in 1..Len(alerts) : alerts[i].title = "Report Submitted"
      ]_vars

\* a submission has failed and the form still holds what was submitted
C7_Witness ==
    /\ variant = "form"
    /\ alerts # <<>>
    /\ alerts[1].title \in {"Submission Error", "Network Error"}
    /\ report.selectedType = "child_abuse"
    /\ report.reportContent = <<" ", "x", " ">>
    /\ report.location = <<"y", " ">>
    /\ ~report.isAnonymous
    /\ ~report.isLoading
    /\ route = <<>>

----------------------------------------------------------------------------
(* Properties of the sign-in and sign-up screens, under SpecAuth *)

\* C8: a failed login changes neither username nor password, raises its
\* error alert, does not navigate and leaves isLoading false; the main tabs
\* are entered only from the alert of a successful login.
C8_FailedLoginKeepsForm ==
    [][ /\ \A t \in tasks, outcome \in {"notOk", "throw"} :
              LoginResponse(t, outcome) =>
                 /\ login'.username = login.username
                 /\ login'.password = login.password
                 /\ alerts' = Append(alerts, Notice(IF outcome = "notOk"
                                                    THEN "Login Error"
                                                    ELSE "Network Error"))
                 /\ route' = route
                 /\ ~login'.isLoading
        /\ (variant = "router" /\ route' # route) =>
              \E i \in 1..Len(alerts) : alerts[i].title = "Success"
      ]_vars

\* a login has failed and the form still holds what was entered
C8_Witness ==
    /\ variant = "router"
    /\ alerts # <<>>
    /\ alerts[1].title \in {"Login Error", "Network Error"}
    /\ login.username = <<" ", "a", " ">>
    /\ login.password = <<"p">>
    /\ ~login.isLoading
    /\ route = <<>>

----------------------------------------------------------------------------
(* Properties of the community screens, under SpecCommunity *)

\* C9, as stated: in both variants a failed fetch of the community list
\* leaves the recommended list and the my-communities list as they were and
\* raises an alert.
C9_Original ==
    [][ \A t \in tasks, outcome \in {"notOk", "throw"} :
          ( \/ device.token /\ LoadCommunitiesDone(t, outcome, <<>>)
            \/ FetchCommunitiesDone(t, outcome, <<>>) ) =>
             /\ community'.communities = community.communities
             /\ community'.myCommunities = community.myCommunities
             /\ Len(alerts') = Len(alerts) + 1 ]_vars

----------------------------------------------------------------------------
(* Validation before the auth endpoints, under SpecAuth *)

\* C10: a request to /auth/login is issued only from a form whose trimmed
\* username and whose password are not empty; a request to /auth/register
\* only from a form whose trimmed display name has at least 3 characters,
\* whose email matches the pattern and whose password has at least 8
\* characters.  A press that issues no request leaves isLoading false.
C10_NoRequestUnlessValid ==
    [][ /\ \A t \in tasks' \ tasks :
              /\ t.url = "/auth/login" =>
                    /\ Trim(login.username) # <<>>
                    /\ login.password # <<>>
              /\ t.url = "/auth/register" =>
                    /\ Len(Trim(account.displayName)) >= 3
                    /\ IsValidEmail(account.email)
                    /\ Len(account.password) >= 8
        /\ (HandleLogin /\ tasks' = tasks) => ~login'.isLoading
        /\ ((\E random \in RandomNumbers : HandleSubmit(random)) /\ tasks' = tasks) =>
              ~account'.isLoading
      ]_vars

\* the sign-up form was rejected for a password of 7 characters
C10_Witness ==
    /\ variant = "account"
    /\ alerts # <<>>
    /\ alerts[1].title = "Validation Error"
    /\ AccountValidateForm = "passwordLength"
    /\ ~account.isLoading
    /\ tasks = {}

\* C11: on the sign-in screen the router moves, and isAuthenticated is set,
\* only in two kinds of step: OK of the 'Success' alert, or the end of the
\* simulated call of the variant that takes onLoginSuccess; the destination
\* is the main tabs.  The 'Success' alert is raised only by the OK answer to
\* a /auth/login request, and an attempt is started only from a form that
\* passed the validation of its variant.
C11_NavigateOnlyOnSuccess ==
    [][ (variant # "account") =>
          /\ (route' # route \/ login'.isAuthenticated # login.isAuthenticated) =>
                /\ route' = Append(route, "/(tabs)")
                /\ \/ /\ variant = "router"
                      /\ \E i \in 1..Len(alerts) :
                            /\ alerts[i].title = "Success"
                            /\ alerts' = Remove(alerts, i)
                   \/ /\ variant = "callback"
                      /\ \E t \in tasks \ tasks' : t.url = "setTimeout"
                      /\ login'.isAuthenticated
          /\ (Len(alerts') > Len(alerts) /\ alerts'[Len(alerts')].title = "Success") =>
                \E t \in tasks : t.url = "/auth/login" /\ LoginResponse(t, "ok")
          /\ \A t \in tasks' \ tasks :
                /\ login.username # <<>> /\ login.password # <<>>
                /\ variant = "router" => Trim(login.username) # <<>>
      ]_vars

\* the main tabs were entered from the alert of a successful login
C11_Witness ==
    /\ variant = "router"
    /\ route = <<"/(tabs)">>
    /\ login.username = <<>>
    /\ alerts = <<>>

----------------------------------------------------------------------------
(* Properties of the home screen, under SpecHome *)

\* C12, as stated: in every variant of the home screen the greeting shown is
\* 'Good Morning' for an hour below 12, 'Good Afternoon' for an hour from 12
\* to 17 and 'Good Evening' for an hour from 18 on.
C12_Original ==
    GreetingShown = CASE device.hour < 12 -> "Good Morning"
                      [] device.hour >= 12 /\ device.hour < 18 -> "Good Afternoon"
                      [] device.hour >= 18 -> "Good Evening"

\* C13: the highlight is none or one of the six moods; it is none before the
\* first tap; a tap highlights the tapped mood; the answer to a mood POST,
\* whichever tap it belongs to and whatever its outcome, leaves the highlight
\* as it is; and a highlighted mood is never followed by none.
C13_LastTapHighlighted ==
    [][ /\ home.selectedMood \in Moods \cup {NoMood}
        /\ home'.selectedMood \in Moods \cup {NoMood}
        /\ (variant = "HomeScreen" /\ issued = 0) => home.selectedMood = NoMood
        /\ \A mood \in Moods :
              (HandleMoodSelection(mood) \/ HandleMoodSelect(mood)) =>
                 /\ home'.selectedMood = mood
                 /\ Cardinality({m \in Moods : home'.selectedMood = m}) = 1
        /\ \A t \in tasks, outcome \in FetchOutcomes :
              MoodResponse(t, outcome) => home'.selectedMood = home.selectedMood
        /\ home.selectedMood # NoMood => home'.selectedMood # NoMood
      ]_vars

\* two taps overlapped, the second was answered first, and the highlight is
\* the mood of the second
C13_Witness ==
    /\ variant = "HomeScreen"
    /\ issued = 2
    /\ Cardinality(tasks) = 1
    /\ \E t \in tasks :
          /\ t.op = "handleMoodSelection"
          /\ t.call = 1
          /\ t.mood # home.selectedMood

\* C14, as stated: every tap on a mood button POSTs the selection, and when
\* its handling ends an alert has been raised: 'Mood Recorded' when the
\* request succeeded, an error alert otherwise.
C14_Original ==
    [][ \A t \in tasks, outcome \in FetchOutcomes :
          MoodResponse(t, outcome) =>
             /\ SignedIn
             /\ Len(alerts') = Len(alerts) + 1
             /\ alerts'[Len(alerts')].title =
                   IF outcome = "ok" THEN "Mood Recorded" ELSE "Error" ]_vars

----------------------------------------------------------------------------
(* Properties of the Safe Report screen, under SpecReport *)

\* C15: the dialer is opened only by 'Call Now' of a call confirmation, with
\* the number that confirmation shows.  A confirmation is raised only by the
\* tap on a card, for the number the directory gives that card; where cards
\* are call cards or report cards, only call cards have a number.  No tap on
\* a card and no other answer to an alert opens the dialer, and the tap on a
\* report card raises no confirmation.
C15_DialOnlyAfterConfirmation ==
    [][ /\ linking' # linking =>
              \E i \in 1..Len(alerts) :
                 /\ alerts[i].title = "Emergency Call"
                 /\ linking' = linking \cup { <<"tel:", alerts[i].number>> }
                 /\ alerts' = Remove(alerts, i)
        /\ (Len(alerts') > Len(alerts)
              /\ alerts'[Len(alerts')].title = "Emergency Call") =>
              \E type \in ReportTypeIds :
                 /\ TapCard(type)
                 /\ variant = "form" => type \in CallTypes
                 /\ alerts'[Len(alerts')].number = PhoneNumber(type)
                 /\ PhoneNumber(type) # ""
        /\ \A type \in ReportTypeIds :
              TapCard(type) =>
                 /\ linking' = linking
                 /\ (variant = "form" /\ type \in FormTypes) => alerts' = alerts
        /\ \A i \in 1..Len(alerts) : DismissAlert(i) => linking' = linking
      ]_vars

\* the emergency number was dialled from its confirmation
C15_Witness ==
    /\ variant = "form"
    /\ <<"tel:", "119">> \in linking
    /\ alerts = <<>>

\* C16: in every reachable state selectedType is '' or one of the two report
\* types, never a call type, and the report form is rendered exactly when
\* selectedType is not ''.
C16_FormIffReportSelected ==
    /\ report.selectedType \in {"", "child_abuse", "crime_violence"}
    /\ FormVisible <=> report.selectedType # ""

\* a report card is selected and the form is rendered
C16_Witness ==
    /\ report.selectedType = "crime_violence"
    /\ FormVisible
    /\ linking # {}

\* C17, as stated: no POST to /reports is issued for a form that has already
\* been sent and that the user has not changed since.
C17_Original ==
    [][ \A t \in tasks' \ tasks :
          t.op = "handleSubmitReport" => ~report.posted ]_vars

\* C17, amended: at most one POST to /reports is in flight, and none is
\* issued once one has succeeded: a POST is issued only while no other is in
\* flight, no 'Report Submitted' alert is open and the screen has not been
\* left; OK of that alert clears the form and leaves the screen.  A form
\* whose submission failed can be sent again unchanged.
C17_OneReportAtATime ==
    [][ /\ \A t \in tasks' \ tasks :
              t.op = "handleSubmitReport" =>
                 /\ \A u \in tasks : u.op # "handleSubmitReport"
                 /\ \A i \in 1..Len(alerts) : alerts[i].title # "Report Submitted"
                 /\ route = <<>>
        /\ \A t \in tasks :
              ReportResponse(t, "ok") =>
                 alerts' = Append(alerts, Notice("Report Submitted"))
        /\ \A i \in 1..Len(alerts) :
              (alerts[i].title = "Report Submitted" /\ alerts' = Remove(alerts, i)) =>
                 /\ route' = <<"back">>
                 /\ report'.selectedType = ""
                 /\ report'.reportContent = <<>>
      ]_vars

\* a submission has failed, its alert is answered, and the form, unchanged
\* since it was sent, is valid and its Submit button enabled
C17_Witness ==
    /\ report.posted
    /\ ~report.isLoading
    /\ tasks = {}
    /\ CanTouch
    /\ FormVisible
    /\ ReportValidateForm = "ok"

----------------------------------------------------------------------------
(* Properties of the community screens, under SpecCommunity *)

\* C18, as stated: after a successful fetch the two lists are the partition
\* of the fetched list by a boolean flag of each community: a community is in
\* 'my communities' iff its flag is true and in 'recommended' iff it is
\* false.  The fetched communities carry no such field, so the statement is
\* that some assignment of flags to them gives the two lists.
C18_Original ==
    [][ \A t \in tasks, list \in ServerLists :
          ( \/ device.token /\ LoadCommunitiesDone(t, "ok", list)
            \/ FetchCommunitiesDone(t, "ok", list) ) =>
             \E flag \in [Elements(list) -> BOOLEAN] :
                \A k \in Elements(list) :
                   /\ k \in Elements(community'.myCommunities) <=> flag[k]
                   /\ k \in Elements(community'.communities) <=> ~flag[k] ]_vars

C20_Original ==
    ( /\ variant = "slicing"
      /\ \A t \in tasks : t.op # "loadCommunities"
      /\ community.latest.call # 0 ) =>
       /\ community.myCommunities = Slice(community.latest.list, 0, 4)
       /\ community.communities = Slice(community.latest.list, 4, 7)

----------------------------------------------------------------------------
(* Properties of the AITherapist screen, under SpecTherapist *)

\* C21, as stated: every recording that was created and is not yet unloaded
\* can still be stopped: it is the recording of the cell while isRecording is
\* true, or a stop of it is under way.
C21_Original ==
    \A h \in audio.live :
       \/ therapist.isRecording /\ therapist.recording = h
       \/ \E t \in tasks : /\ t.op = "stopRecording"
                           /\ t.pc = "stopAndUnload"
                           /\ t.recording = h

\* C22: the message list is append-only over the seed transcript.  In every
\* state the seed messages are the first messages of the list, and every step
\* either leaves the list as it is or appends exactly one message, of the user
\* or of the bot, at its end.
C22_AppendOnlyOverSeed ==
    /\ [](/\ Len(therapist.messages) >= Len(Seed)
          /\ SubSeq(therapist.messages, 1, Len(Seed)) = Seed)
    /\ [][ \/ therapist'.messages = therapist.messages
           \/ /\ Len(therapist'.messages) = Len(therapist.messages) + 1
              /\ SubSeq(therapist'.messages, 1, Len(therapist.messages)) =
                    therapist.messages
              /\ therapist'.messages[Len(therapist'.messages)].sender \in
                    {"user", "bot"} ]_vars

\* the text variant after an answered send with an empty reply: the five seed
\* messages, the user's message and the default text
C22_Witness ==
    /\ variant = "text"
    /\ Len(therapist.messages) = Len(SeedText) + 2
    /\ SubSeq(therapist.messages, 1, Len(SeedText)) = SeedText
    /\ therapist.messages[Len(SeedText) + 1].sender = "user"
    /\ therapist.messages[Len(SeedText) + 2] = [sender |-> "bot", text |-> DefaultReply]

\* C23, as stated: at most one POST /chat/message is in flight at any time.
C23_Original == Cardinality(ChatRequests) <= 1

\* C24, as stated: after the seed transcript the messages alternate, a user
\* message first: the message at an odd place after the seed is the user's,
\* the message at an even place the bot's.
C24_Original ==
    \A i \in 1..(Len(therapist.messages) - Len(Seed)) :
       therapist.messages[Len(Seed) + i].sender =
          IF i % 2 = 1 THEN "user" ELSE "bot"

\* C25: every accepted send terminates.  When the fetches of POST
\* /chat/message settle, whatever their outcomes, every send comes to its end:
\* no request is left in flight, the bot's message is the last of the list
\* and isLoading is false.
C25_SendTerminates ==
    (ChatRequests # {})
       ~> /\ ChatRequests = {}
          /\ therapist.messages[Len(therapist.messages)].sender = "bot"
          /\ ~therapist.isLoading

\* two sends have been accepted and both have ended
C25_Witness ==
    /\ UserTurns = 2
    /\ ChatRequests = {}
    /\ therapist.messages[Len(therapist.messages)].sender = "bot"
    /\ ~therapist.isLoading

\* C26, as stated: a call of handleSendMessage made while the text to send is
\* blank or isLoading is true changes neither the message list nor inputValue
\* nor isLoading, and issues no request.
C26_Original ==
    [][ /\ (PressSend /\ (Trim(therapist.inputValue) = <<>> \/ therapist.isLoading))
             => (therapist' = therapist /\ ChatRequests' = ChatRequests)
        /\ \A i \in 1..Len(alerts) :
              (/\ TranscriptionSend(i)
               /\ (Trim(alerts[i].text) = <<>> \/ therapist.isLoading))
                 => (therapist' = therapist /\ ChatRequests' = ChatRequests)
      ]_vars

\* C27, as stated: whenever isRecording is true the recording cell holds a
\* recording, so that a stop tap reaches stopAndUnloadAsync.
C27_Original == therapist.isRecording => therapist.recording # 0

\* C28, as stated: the ids of the messages of the list are pairwise distinct.
C28_Original ==
    \A i, j \in 1..Len(stamps.ids) :
       i # j => stamps.ids[i] # stamps.ids[j]

----------------------------------------------------------------------------
(* Properties of the tab screens, under SpecTabsFair *)

\* C29: the loading spinner of the home and community screens clears.  Every
\* completion of loadUserData sets loading to false and every completion of
\* loadCommunities sets loading and refreshing to false, whichever path it
\* took; and when the awaits settle, a screen that shows loading or refreshing
\* comes to a state in which it shows it no more.
C29_SpinnerClears ==
    /\ [][ /\ \A t \in tasks, outcome \in FetchOutcomes :
                 (HomeInFront /\ LoadUserDataDone(t, outcome)) => ~home'.loading
           /\ \A t \in tasks, outcome \in FetchOutcomes, list \in ServerLists :
                 (CommunityInFront /\ LoadCommunitiesDone(t, outcome, list)) =>
                    (~community'.loading /\ ~community'.refreshing) ]_vars
    /\ SpinnerShown ~> ~SpinnerShown

\* the community screen without a token: loadCommunities has returned early,
\* its alert is open and the spinner is gone
C29_Witness ==
    /\ variant = "slicing"
    /\ ~device.token
    /\ tasks = {}
    /\ Len(alerts) = 1
    /\ ~community.loading
    /\ ~community.refreshing

----------------------------------------------------------------------------
(* Properties of the sign-up screen, under SpecAuth *)

\* C30: the username sent with a registration, generated from a display name
\* that passed validateForm, is not empty and consists of the characters a-z
\* and 0-9 only; it is the cleaned name (trimmed, lowercased, every other
\* character removed) when that has three characters or more, and the
\* cleaned name followed by the decimal digits of a number in 0..999 otherwise.
C30_UsernameWellFormed ==
    \A t \in tasks :
       t.op = "handleSubmit" =>
          LET cleaned == KeepLowerAlnum(ToLowerCase(t.display_name)) IN
          /\ Len(t.display_name) >= 3
          /\ t.username # <<>>
          /\ \A k \in 1..Len(t.username) :
                t.username[k] \in
                   { "a", "b", "c", "d", "e", "f", "g", "h", "i", "j", "k", "l", "m",
                     "n", "o", "p", "q", "r", "s", "t", "u", "v", "w", "x", "y", "z",
                     "0", "1", "2", "3", "4", "5", "6", "7", "8", "9" }
          /\ Len(cleaned) >= 3 => t.username = cleaned
          /\ Len(cleaned) < 3 =>
                \E n \in 0..999 : t.username = cleaned \o NumberToString(n)

\* registrations are in flight or were sent for a name whose cleaned form is
\* too short: the username is a letter followed by a number, or a number alone
C30_Witness ==
    \E t \in tasks :
       /\ t.op = "handleSubmit"
       /\ t.display_name \in { <<"A", " ", "!">>, <<"!", "!", "!">> }
       /\ t.username \in { <<"a", "4", "2">>, <<"9", "9", "9">>, <<"0">> }

====
